---- MODULE Spec2Model ----
(***************************************************************************)
(* update_readme.py: the README splicer.  One invocation reads README.md,  *)
(* locates three heading markers by first-occurrence substring search,     *)
(* slices the text at the found offsets, joins the slices with two fixed   *)
(* text blocks and overwrites README.md with the result.                   *)
(*                                                                         *)
(* Text is modelled by TLA+ strings (sequences of characters).  Offsets    *)
(* are Python's: 0-based, slices half-open.  The grave accent U+0060       *)
(* cannot be written inside a TLA+ string literal, so it is written as the *)
(* circumflex "^", a character that occurs nowhere in the program's text   *)
(* or in the documents considered; the renaming is one-to-one, so every    *)
(* substring search and every comparison is unaffected.                    *)
(***************************************************************************)
EXTENDS Integers, Sequences, FiniteSets, TLC

----------------------------------------------------------------------------
(* Bounds of the model *)

\* a document is made of at most MaxPieces pieces
MaxPieces == 4
\* another process stores documents of at most MaxExtPieces pieces
MaxExtPieces == 1
\* a document of the repeated invocations is made of at most MaxRerunPieces
\* pieces
MaxRerunPieces == 3
\* invocations of update_readme in one behaviour of the repeated invocations
MaxRuns == 2
\* a write that fails part-way leaves a multiple of WriteChunk characters
WriteChunk == 1000

----------------------------------------------------------------------------
(* The literal text of the program *)

new_dir_structure_section ==
    "## Directory Structure\n"
 \o "\n"
 \o "The project is organized as follows:\n"
 \o "\n"
 \o "- \\^CMakeLists.txt\\^: The main CMake file to configure and build the project.\n"
 \o "- \\^include/\\^: Contains the header files for the data structures (\\^skiplist.h\\^, \\^trie.h\\^, \\^policy_radix.h\\^). Since these are header-only libraries, you primarily interact with these files.\n"
 \o "- \\^examples/\\^: Contains example source files (\\^example.cpp\\^, \\^use_policy.cpp\\^, \\^use_skip.cpp\\^) demonstrating how to use the data structures.\n"
 \o "- \\^tests/\\^: Contains test source files and related data.\n"
 \o "  - \\^tests/CMakeLists.txt\\^: CMake file specifically for building and running tests using Google Test.\n"
 \o "  - \\^tests/trie_test.txt\\^: Example test data for the Trie.\n"
 \o "- \\^.gitignore\\^: Specifies intentionally untracked files that Git should ignore.\n"

\* the compile block under the heading of the section it replaces
new_compile_section_old_heading ==
    "## How to Compile & Run Examples\n"
 \o "\n"
 \o "This project uses CMake to manage the build process. The data structures themselves are header-only and located in the \\^include/\\^ directory. Examples and tests are provided to demonstrate usage and verify functionality.\n"
 \o "\n"
 \o "### Prerequisites\n"
 \o "- A C++17 compliant compiler (e.g., GCC, Clang, MSVC)\n"
 \o "- CMake (version 3.10 or higher recommended)\n"
 \o "\n"
 \o "### Building the Project (Examples and Tests)\n"
 \o "\n"
 \o "1.  **Clone the repository:**\n"
 \o "    \\^\\^\\^bash\n"
 \o "    git clone <repository_url>\n"
 \o "    cd <repository_directory>\n"
 \o "    \\^\\^\\^\n"
 \o "\n"
 \o "2.  **Configure with CMake:**\n"
 \o "    It's recommended to build in a separate directory (e.g., \\^build/\\^):\n"
 \o "    \\^\\^\\^bash\n"
 \o "    mkdir build\n"
 \o "    cd build\n"
 \o "    cmake ..\n"
 \o "    \\^\\^\\^\n"
 \o "    This will configure the project and generate build files for your environment (e.g., Makefiles on Linux/macOS, Visual Studio solution on Windows).\n"
 \o "\n"
 \o "3.  **Compile:**\n"
 \o "    \\^\\^\\^bash\n"
 \o "    cmake --build .\n"
 \o "    \\^\\^\\^\n"
 \o "    Or, if using Makefiles (after \\^cmake ..\\^):\n"
 \o "    \\^\\^\\^bash\n"
 \o "    make\n"
 \o "    \\^\\^\\^\n"
 \o "    This will compile the example executables (e.g., \\^trie_example\\^, \\^policy_example\\^, \\^skip_example\\^) and the test runner (\\^run_tests\\^). The executables will typically be found in the \\^build/\\^ directory.\n"
 \o "\n"
 \o "### Running Examples\n"
 \o "\n"
 \o "After successful compilation, you can run the examples from the build directory:\n"
 \o "\\^\\^\\^bash\n"
 \o "./trie_example\n"
 \o "./policy_example\n"
 \o "./skip_example\n"
 \o "\\^\\^\\^\n"
 \o "*(Note: On Windows, they would be \\^.exe\\^ files, e.g., \\^./trie_example.exe\\^)*\n"
 \o "\n"
 \o "### Running Tests\n"
 \o "\n"
 \o "The tests are compiled into an executable named \\^run_tests\\^. You can run it from the build directory:\n"
 \o "\\^\\^\\^bash\n"
 \o "./run_tests\n"
 \o "\\^\\^\\^\n"
 \o "Or, using CTest (which is configured by CMake):\n"
 \o "\\^\\^\\^bash\n"
 \o "ctest\n"
 \o "\\^\\^\\^\n"
 \o "CTest will provide a summary of test results.\n"

new_compile_section ==
    "## How to Compile & Run\n"
 \o "\n"
 \o "This project uses CMake to manage the build process. The data structures themselves are header-only and located in the \\^include/\\^ directory. Examples and tests are provided to demonstrate usage and verify functionality.\n"
 \o "\n"
 \o "### Prerequisites\n"
 \o "- A C++17 compliant compiler (e.g., GCC, Clang, MSVC)\n"
 \o "- CMake (version 3.10 or higher recommended)\n"
 \o "\n"
 \o "### Building the Project (Examples and Tests)\n"
 \o "\n"
 \o "1.  **Clone the repository:**\n"
 \o "    \\^\\^\\^bash\n"
 \o "    git clone <repository_url>\n"
 \o "    cd <repository_directory>\n"
 \o "    \\^\\^\\^\n"
 \o "\n"
 \o "2.  **Configure with CMake:**\n"
 \o "    It's recommended to build in a separate directory (e.g., \\^build/\\^):\n"
 \o "    \\^\\^\\^bash\n"
 \o "    mkdir build\n"
 \o "    cd build\n"
 \o "    cmake ..\n"
 \o "    \\^\\^\\^\n"
 \o "    This will configure the project and generate build files for your environment (e.g., Makefiles on Linux/macOS, Visual Studio solution on Windows).\n"
 \o "\n"
 \o "3.  **Compile:**\n"
 \o "    \\^\\^\\^bash\n"
 \o "    cmake --build .\n"
 \o "    \\^\\^\\^\n"
 \o "    Or, if using Makefiles (after \\^cmake ..\\^):\n"
 \o "    \\^\\^\\^bash\n"
 \o "    make\n"
 \o "    \\^\\^\\^\n"
 \o "    This will compile the example executables (e.g., \\^trie_example\\^, \\^policy_example\\^, \\^skip_example\\^) and the test runner (\\^run_tests\\^). The executables will typically be found in the \\^build/\\^ directory.\n"
 \o "\n"
 \o "### Running Examples\n"
 \o "\n"
 \o "After successful compilation, you can run the examples from the build directory:\n"
 \o "\\^\\^\\^bash\n"
 \o "./trie_example\n"
 \o "./policy_example\n"
 \o "./skip_example\n"
 \o "\\^\\^\\^\n"
 \o "*(Note: On Windows, they would be \\^.exe\\^ files, e.g., \\^./trie_example.exe\\^)*\n"
 \o "\n"
 \o "### Running Tests\n"
 \o "\n"
 \o "The tests are compiled into an executable named \\^run_tests\\^. You can run it from the build directory:\n"
 \o "\\^\\^\\^bash\n"
 \o "./run_tests\n"
 \o "\\^\\^\\^\n"
 \o "Or, using CTest (which is configured by CMake):\n"
 \o "\\^\\^\\^bash\n"
 \o "ctest\n"
 \o "\\^\\^\\^\n"
 \o "CTest will provide a summary of test results.\n"

features_overview_marker == "## Features Overview"

old_compile_marker == "## How to Compile & Run Examples"

skip_list_marker == "## Skip List (^skiplist.h^)"


----------------------------------------------------------------------------
(* Python's string operations *)

\* str.index raises ValueError when the substring does not occur
ValueError == -1
\* a local name that no assignment has bound yet
Unbound == -2

\* the offsets (0-based) at which sub occurs in s as an exact substring
Occurrences(s, sub) ==
    {i \in 0..(Len(s) - Len(sub)) : SubSeq(s, i + 1, i + Len(sub)) = sub}

\* index that answers len(s) instead of raising when sub does not occur
index_or_end(s, sub) ==
    LET occ == Occurrences(s, sub)
    IN  IF occ = {} THEN Len(s)
        ELSE CHOOSE i \in occ : \A j \in occ : i <= j

\* s.index(sub): the lowest offset at which sub occurs in s, or ValueError
index(s, sub) ==
    LET occ == Occurrences(s, sub)
    IN  IF occ = {} THEN ValueError
        ELSE CHOOSE i \in occ : \A j \in occ : i <= j

\* a slice that takes the character at hi as well
Slice_inclusive(s, lo, hi) ==
    LET h == IF hi + 1 > Len(s) THEN Len(s) ELSE hi + 1
    IN  IF lo >= h THEN "" ELSE SubSeq(s, lo + 1, h)

\* a slice that puts reversed bounds in order instead of answering ""
Slice_reordered(s, lo, hi) ==
    LET l == IF lo <= hi THEN lo ELSE hi
        h == IF lo <= hi THEN hi ELSE lo
    IN  IF l >= h THEN "" ELSE SubSeq(s, l + 1, IF h > Len(s) THEN Len(s) ELSE h)

\* s[lo:hi] for 0 <= lo, 0 <= hi: empty when lo >= hi, clipped at len(s)
Slice(s, lo, hi) ==
    LET h == IF hi > Len(s) THEN Len(s) ELSE hi
    IN  IF lo >= h THEN "" ELSE SubSeq(s, lo + 1, h)

\* "".join(parts)
RECURSIVE Join(_)
Join(parts) ==
    IF parts = <<>> THEN "" ELSE Head(parts) \o Join(Tail(parts))

\* new_readme_parts with the compile block placed ahead of the features
new_readme_parts_swapped(intro, features, rest) ==
    << intro,
       new_dir_structure_section,
       "\n",
       new_compile_section,
       features,
       "\n",
       rest >>

\* the list new_readme_parts
new_readme_parts(intro, features, rest) ==
    << intro,
       new_dir_structure_section,
       "\n",
       features,
       new_compile_section,
       "\n",
       rest >>

----------------------------------------------------------------------------
(* The documents README.md may hold *)

\* the three headings the program looks for, and the heading it writes itself
\* (which differs from the old compile heading only by its end)
Pieces ==
    { features_overview_marker,
      old_compile_marker,
      skip_list_marker,
      "## How to Compile & Run\n" }

RECURSIVE DocsUpTo(_)
DocsUpTo(n) ==
    IF n = 0 THEN {""}
    ELSE LET shorter == DocsUpTo(n - 1)
         IN  shorter \cup {d \o p : d \in shorter, p \in Pieces}

Docs == DocsUpTo(MaxPieces)
ExtDocs == DocsUpTo(MaxExtPieces)
RerunDocs == DocsUpTo(MaxRerunPieces)

----------------------------------------------------------------------------
(* State *)

VARIABLES
    exists,                    \* README.md exists
    file,                      \* its content ("" when it does not exist)
    pc,                        \* position of the current invocation
    current_readme_content,
    intro_end_index,
    old_compile_start_index,
    skip_list_start_index,
    features_overview_end_index,
    intro_content,
    features_content,
    rest_of_readme,
    final_readme_content,
    outcome,                   \* what the invocation reported
    exception,                 \* the exception the invocation raised, if any
    writes,                    \* times this invocation opened the file for writing
    runs,                      \* invocations started so far
    stale,                     \* another process modified the file after this
                               \* invocation read it
    log                        \* one record per finished earlier invocation

locals == << current_readme_content, intro_end_index, old_compile_start_index,
             skip_list_start_index, features_overview_end_index,
             intro_content, features_content, rest_of_readme,
             final_readme_content >>

vars == << exists, file, pc, current_readme_content, intro_end_index,
           old_compile_start_index, skip_list_start_index,
           features_overview_end_index, intro_content, features_content,
           rest_of_readme, final_readme_content, outcome, exception, writes,
           runs, stale, log >>

\* update_readme is entered with README.md absent or holding one of docs
InitWith(docs) ==
    /\ exists \in BOOLEAN
    /\ file \in (IF exists THEN docs ELSE {""})
    /\ pc = "start"
    /\ current_readme_content = ""
    /\ intro_end_index = Unbound
    /\ old_compile_start_index = Unbound
    /\ skip_list_start_index = Unbound
    /\ features_overview_end_index = Unbound
    /\ intro_content = ""
    /\ features_content = ""
    /\ rest_of_readme = ""
    /\ final_readme_content = ""
    /\ outcome = "none"
    /\ exception = "none"
    /\ writes = 0
    /\ runs = 1
    /\ stale = FALSE
    /\ log = <<>>

Init == InitWith(Docs)

----------------------------------------------------------------------------
(* update_readme *)

\* what open(..., "r") or read() may raise on a file that exists
ReadErrors == {"PermissionError", "UnicodeDecodeError"}

\* Load with a handler that catches every failure and goes on with an empty
\* document
Load_default ==
    /\ pc = "start"
    /\ \/ /\ ~exists
          /\ exception' = "FileNotFoundError"
          /\ current_readme_content' = ""
          /\ pc' = "loaded"
          /\ UNCHANGED outcome
       \/ /\ exists
          /\ current_readme_content' = file
          /\ pc' = "loaded"
          /\ UNCHANGED << outcome, exception >>
       \/ /\ exists
          /\ \E e \in ReadErrors : exception' = e
          /\ current_readme_content' = ""
          /\ pc' = "loaded"
          /\ UNCHANGED outcome
    /\ UNCHANGED << exists, file, intro_end_index, old_compile_start_index,
                    skip_list_start_index, features_overview_end_index,
                    intro_content, features_content, rest_of_readme,
                    final_readme_content, writes, runs, stale, log >>

\* lines 4-9: open for reading and read the whole file.  Only
\* FileNotFoundError is caught; any other exception of open or read leaves
\* the function uncaught and ends the invocation with a traceback.  The
\* documents considered are ASCII without carriage returns, which decoding
\* and the newline translation of text mode hand over character by character.
Load ==
    /\ pc = "start"
    /\ \/ /\ ~exists
          /\ exception' = "FileNotFoundError"
          /\ outcome' = "NotFound"
          /\ pc' = "done"
          /\ UNCHANGED current_readme_content
       \/ /\ exists
          /\ current_readme_content' = file
          /\ pc' = "loaded"
          /\ UNCHANGED << outcome, exception >>
       \/ /\ exists
          /\ \E e \in ReadErrors : exception' = e
          /\ outcome' = "Uncaught"
          /\ pc' = "done"
          /\ UNCHANGED current_readme_content
    /\ UNCHANGED << exists, file, intro_end_index, old_compile_start_index,
                    skip_list_start_index, features_overview_end_index,
                    intro_content, features_content, rest_of_readme,
                    final_readme_content, writes, runs, stale, log >>

\* s.index(sub, start): the search resumed at offset start
index_from(s, sub, start) ==
    LET occ == {i \in Occurrences(s, sub) : i >= start}
    IN  IF start = ValueError \/ occ = {} THEN ValueError
        ELSE CHOOSE i \in occ : \A j \in occ : i <= j

\* Locate with each search resumed where the previous marker was found
Locate_incremental ==
    /\ pc = "loaded"
    /\ \E a \in {index(current_readme_content, features_overview_marker)},
          b \in {index_from(current_readme_content, old_compile_marker,
                            index(current_readme_content,
                                  features_overview_marker))},
          c \in {index_from(current_readme_content, skip_list_marker,
                            index_from(current_readme_content,
                                       old_compile_marker,
                                       index(current_readme_content,
                                             features_overview_marker)))} :
         IF a = ValueError
           THEN /\ intro_end_index' = Unbound
                /\ old_compile_start_index' = Unbound
                /\ skip_list_start_index' = Unbound
                /\ features_overview_end_index' = Unbound
                /\ exception' = "ValueError"
                /\ outcome' = "MarkerNotFound"
                /\ pc' = "done"
         ELSE IF b = ValueError
           THEN /\ intro_end_index' = a
                /\ old_compile_start_index' = Unbound
                /\ skip_list_start_index' = Unbound
                /\ features_overview_end_index' = Unbound
                /\ exception' = "ValueError"
                /\ outcome' = "MarkerNotFound"
                /\ pc' = "done"
         ELSE IF c = ValueError
           THEN /\ intro_end_index' = a
                /\ old_compile_start_index' = b
                /\ skip_list_start_index' = Unbound
                /\ features_overview_end_index' = Unbound
                /\ exception' = "ValueError"
                /\ outcome' = "MarkerNotFound"
                /\ pc' = "done"
           ELSE /\ intro_end_index' = a
                /\ old_compile_start_index' = b
                /\ skip_list_start_index' = c
                /\ features_overview_end_index' = b
                /\ pc' = "located"
                /\ UNCHANGED << outcome, exception >>
    /\ UNCHANGED << exists, file, current_readme_content, intro_content,
                    features_content, rest_of_readme, final_readme_content,
                    writes, runs, stale, log >>


\* Locate that also rejects markers found out of the order A, B, C
Locate_ordered ==
    /\ pc = "loaded"
    /\ \E a \in {index(current_readme_content, features_overview_marker)},
          b \in {index(current_readme_content, old_compile_marker)},
          c \in {index(current_readme_content, skip_list_marker)} :
         IF a = ValueError \/ (b # ValueError /\ c # ValueError
                                  /\ ~(a <= b /\ b <= c))
           THEN /\ intro_end_index' = Unbound
                /\ old_compile_start_index' = Unbound
                /\ skip_list_start_index' = Unbound
                /\ features_overview_end_index' = Unbound
                /\ exception' = "ValueError"
                /\ outcome' = "MarkerNotFound"
                /\ pc' = "done"
         ELSE IF b = ValueError
           THEN /\ intro_end_index' = a
                /\ old_compile_start_index' = Unbound
                /\ skip_list_start_index' = Unbound
                /\ features_overview_end_index' = Unbound
                /\ exception' = "ValueError"
                /\ outcome' = "MarkerNotFound"
                /\ pc' = "done"
         ELSE IF c = ValueError
           THEN /\ intro_end_index' = a
                /\ old_compile_start_index' = b
                /\ skip_list_start_index' = Unbound
                /\ features_overview_end_index' = Unbound
                /\ exception' = "ValueError"
                /\ outcome' = "MarkerNotFound"
                /\ pc' = "done"
           ELSE /\ intro_end_index' = a
                /\ old_compile_start_index' = b
                /\ skip_list_start_index' = c
                /\ features_overview_end_index' = b
                /\ pc' = "located"
                /\ UNCHANGED << outcome, exception >>
    /\ UNCHANGED << exists, file, current_readme_content, intro_content,
                    features_content, rest_of_readme, final_readme_content,
                    writes, runs, stale, log >>


\* lines 88-97: three searches of the whole text, in the order A, B, C, each
\* bound to its name as soon as it returns; the first ValueError ends the
\* invocation and leaves the later names unbound.
Locate ==
    /\ pc = "loaded"
    /\ \E a \in {index(current_readme_content, features_overview_marker)},
          b \in {index(current_readme_content, old_compile_marker)},
          c \in {index(current_readme_content, skip_list_marker)} :
         IF a = ValueError
           THEN /\ intro_end_index' = Unbound
                /\ old_compile_start_index' = Unbound
                /\ skip_list_start_index' = Unbound
                /\ features_overview_end_index' = Unbound
                /\ exception' = "ValueError"
                /\ outcome' = "MarkerNotFound"
                /\ pc' = "done"
         ELSE IF b = ValueError
           THEN /\ intro_end_index' = a
                /\ old_compile_start_index' = Unbound
                /\ skip_list_start_index' = Unbound
                /\ features_overview_end_index' = Unbound
                /\ exception' = "ValueError"
                /\ outcome' = "MarkerNotFound"
                /\ pc' = "done"
         ELSE IF c = ValueError
           THEN /\ intro_end_index' = a
                /\ old_compile_start_index' = b
                /\ skip_list_start_index' = Unbound
                /\ features_overview_end_index' = Unbound
                /\ exception' = "ValueError"
                /\ outcome' = "MarkerNotFound"
                /\ pc' = "done"
           ELSE /\ intro_end_index' = a
                /\ old_compile_start_index' = b
                /\ skip_list_start_index' = c
                /\ features_overview_end_index' = b
                /\ pc' = "located"
                /\ UNCHANGED << outcome, exception >>
    /\ UNCHANGED << exists, file, current_readme_content, intro_content,
                    features_content, rest_of_readme, final_readme_content,
                    writes, runs, stale, log >>

\* lines 99-115: slice at the found offsets and join the parts
Assemble ==
    /\ pc = "located"
    /\ LET intro == Slice(current_readme_content, 0, intro_end_index)
           features == Slice(current_readme_content, intro_end_index,
                             features_overview_end_index)
           rest == Slice(current_readme_content, skip_list_start_index,
                         Len(current_readme_content))
       IN  /\ intro_content' = intro
           /\ features_content' = features
           /\ rest_of_readme' = rest
           /\ final_readme_content' =
                 Join(new_readme_parts(intro, features, rest))
    /\ pc' = "assembled"
    /\ UNCHANGED << exists, file, current_readme_content, intro_end_index,
                    old_compile_start_index, skip_list_start_index,
                    features_overview_end_index, outcome, exception, writes,
                    runs, stale, log >>

\* the lengths a write that fails part-way may leave behind
PartialLengths(s) ==
    IF s = "" THEN {} ELSE {k * WriteChunk : k \in 0..((Len(s) - 1) \div WriteChunk)}

\* Persist that opens the file a second time when the first attempt failed
Persist_retry ==
    /\ pc = "assembled"
    /\ pc' = "done"
    /\ \E fault \in {"none", "open", "write"} :
         /\ writes' = IF fault = "none" THEN writes + 1 ELSE writes + 2
         /\ exists' = TRUE
         /\ file' = final_readme_content
         /\ outcome' = "Success"
         /\ UNCHANGED exception
    /\ UNCHANGED << current_readme_content, intro_end_index,
                    old_compile_start_index, skip_list_start_index,
                    features_overview_end_index, intro_content,
                    features_content, rest_of_readme, final_readme_content,
                    runs, stale, log >>

\* Persist that leaves a file alone when it no longer holds what was read
Persist_keep_newer ==
    /\ pc = "assembled"
    /\ pc' = "done"
    /\ outcome' = "Success"
    /\ IF exists /\ file = current_readme_content
         THEN /\ file' = final_readme_content
              /\ writes' = writes + 1
              /\ UNCHANGED exists
         ELSE UNCHANGED << exists, file, writes >>
    /\ UNCHANGED << current_readme_content, intro_end_index,
                    old_compile_start_index, skip_list_start_index,
                    features_overview_end_index, intro_content,
                    features_content, rest_of_readme, final_readme_content,
                    exception, runs, stale, log >>

\* lines 117-122: open for writing (creating or truncating the file), write,
\* report.  IOError covers every failure of open, write and close.
Persist ==
    /\ pc = "assembled"
    /\ writes' = writes + 1
    /\ pc' = "done"
    /\ \E fault \in {"none", "open", "write"} :
         CASE fault = "none" ->
                /\ exists' = TRUE
                /\ file' = final_readme_content
                /\ outcome' = "Success"
                /\ UNCHANGED exception
           [] fault = "open" ->
                /\ UNCHANGED << exists, file >>
                /\ outcome' = "WriteError"
                /\ exception' = "IOError"
           [] fault = "write" ->
                /\ exists' = TRUE
                /\ \E k \in PartialLengths(final_readme_content) :
                     file' = SubSeq(final_readme_content, 1, k)
                /\ outcome' = "WriteError"
                /\ exception' = "IOError"
    /\ UNCHANGED << current_readme_content, intro_end_index,
                    old_compile_start_index, skip_list_start_index,
                    features_overview_end_index, intro_content,
                    features_content, rest_of_readme, final_readme_content,
                    runs, stale, log >>

\* lines 124-125: the script is run again
Invoke ==
    /\ pc = "done"
    /\ runs < MaxRuns
    /\ runs' = runs + 1
    /\ log' = Append(log, [ content  |-> current_readme_content,
                            a        |-> intro_end_index,
                            b        |-> old_compile_start_index,
                            c        |-> skip_list_start_index,
                            final    |-> final_readme_content,
                            outcome  |-> outcome,
                            raised   |-> exception,
                            existed  |-> exists,
                            left     |-> file ])
    /\ pc' = "start"
    /\ current_readme_content' = ""
    /\ intro_end_index' = Unbound
    /\ old_compile_start_index' = Unbound
    /\ skip_list_start_index' = Unbound
    /\ features_overview_end_index' = Unbound
    /\ intro_content' = ""
    /\ features_content' = ""
    /\ rest_of_readme' = ""
    /\ final_readme_content' = ""
    /\ outcome' = "none"
    /\ exception' = "none"
    /\ writes' = 0
    /\ stale' = FALSE
    /\ UNCHANGED << exists, file >>

----------------------------------------------------------------------------
(* Other processes: nothing locks README.md between the read and the write, *)
(* so the file may be replaced or removed while the invocation holds what   *)
(* it read.  Several modifications leave what the last one left.            *)

ExternalWrite ==
    /\ pc \in {"loaded", "located", "assembled"}
    /\ \E d \in ExtDocs :
         /\ ~(exists /\ file = d)
         /\ exists' = TRUE
         /\ file' = d
    /\ stale' = TRUE
    /\ UNCHANGED << pc, locals, outcome, exception, writes, runs, log >>

ExternalDelete ==
    /\ pc \in {"loaded", "located", "assembled"}
    /\ exists
    /\ exists' = FALSE
    /\ file' = ""
    /\ stale' = TRUE
    /\ UNCHANGED << pc, locals, outcome, exception, writes, runs, log >>

----------------------------------------------------------------------------
(* One invocation, with other processes at work on the file *)

Next ==
    \/ Load
    \/ Locate
    \/ Assemble
    \/ Persist
    \/ ExternalWrite
    \/ ExternalDelete

Spec == Init /\ [][Next]_vars

(* The script run several times in a row, the file left to it alone *)

InitRerun == InitWith(RerunDocs)

NextRerun ==
    \/ Load
    \/ Locate
    \/ Assemble
    \/ Persist
    \/ Invoke

SpecRerun == InitRerun /\ [][NextRerun]_vars

TypeOK ==
    /\ exists \in BOOLEAN
    /\ pc \in {"start", "loaded", "located", "assembled", "done"}
    /\ outcome \in {"none", "NotFound", "Uncaught", "MarkerNotFound",
                    "Success", "WriteError"}
    /\ runs \in 1..MaxRuns
    /\ stale \in BOOLEAN
    /\ exception \in {"none", "FileNotFoundError", "ValueError", "IOError"}
                     \cup ReadErrors
    /\ writes \in 0..1
    /\ Len(log) = runs - 1

----------------------------------------------------------------------------
(* Vocabulary of the properties *)

\* the document the current invocation read
Document == current_readme_content

\* the invocation got its document: open and read raised nothing
HasRead ==
    \/ pc \in {"loaded", "located", "assembled"}
    \/ pc = "done" /\ outcome \in {"MarkerNotFound", "Success", "WriteError"}

\* marker m occurs in s
OccursIn(s, m) ==
    \E i \in 0..(Len(s) - Len(m)) : SubSeq(s, i + 1, i + Len(m)) = m

\* i is the offset of the first occurrence of m in s
FirstAt(s, m, i) ==
    /\ i \in 0..(Len(s) - Len(m))
    /\ SubSeq(s, i + 1, i + Len(m)) = m
    /\ \A j \in 0..(i - 1) : SubSeq(s, j + 1, j + Len(m)) # m

\* pos: the offset of the first occurrence of m in s (ValueError if none)
pos(s, m) ==
    LET at == {i \in 0..(Len(s) - Len(m)) : SubSeq(s, i + 1, i + Len(m)) = m}
    IN  IF at = {} THEN ValueError
        ELSE CHOOSE i \in at : \A j \in at : i <= j

AllMarkersIn(s) ==
    /\ OccursIn(s, features_overview_marker)
    /\ OccursIn(s, old_compile_marker)
    /\ OccursIn(s, skip_list_marker)

\* the step leaves README.md other than it found it
FileChanges == file' # file \/ exists' # exists

----------------------------------------------------------------------------
(* C1 *)

\* C1: when the markers' first occurrences satisfy pos(A) <= pos(B) <= pos(C),
\* a successful invocation leaves in the file exactly
\* Document[0:pos(A)] + new_dir_structure_section + "\n" +
\* Document[pos(A):pos(B)] + new_compile_section + "\n" + Document[pos(C):];
\* Document[pos(B):pos(C)] is no part of it, and the three kept spans are
\* copies of the document's text.
C1_OrderedSplice ==
    (pc = "done" /\ outcome = "Success") =>
      \A pA \in {pos(Document, features_overview_marker)},
         pB \in {pos(Document, old_compile_marker)},
         pC \in {pos(Document, skip_list_marker)} :
        (0 <= pA /\ pA <= pB /\ pB <= pC) =>
          /\ exists
          /\ file = SubSeq(Document, 1, pA)
                      \o new_dir_structure_section \o "\n"
                      \o SubSeq(Document, pA + 1, pB)
                      \o new_compile_section \o "\n"
                      \o SubSeq(Document, pC + 1, Len(Document))
          /\ Len(file) = Len(Document) - (pC - pB)
                           + Len(new_dir_structure_section) + 1
                           + Len(new_compile_section) + 1
          /\ intro_content = SubSeq(Document, 1, pA)
          /\ features_content = SubSeq(Document, pA + 1, pB)
          /\ rest_of_readme = SubSeq(Document, pC + 1, Len(Document))

\* an ordered document with a non-empty intro and a non-empty dropped span
\* has been spliced and written
C1_Witness ==
    /\ pc = "done"
    /\ outcome = "Success"
    /\ 0 < intro_end_index
    /\ intro_end_index < old_compile_start_index
    /\ old_compile_start_index < skip_list_start_index
    /\ file = final_readme_content
    /\ Len(intro_content) > 0

----------------------------------------------------------------------------
(* C2 *)

C2_NoWriteWithoutMarkers ==
    /\ (pc = "done" /\ HasRead /\ ~AllMarkersIn(Document)) =>
          /\ outcome = "MarkerNotFound"
          /\ writes = 0
          /\ final_readme_content = ""
    /\ (pc = "assembled" \/ writes > 0) => AllMarkersIn(Document)

\* the steps of the invocation are those that move pc
C2_OnlyPersistTouchesFile ==
    (FileChanges /\ pc' # pc) =>
        (pc = "assembled" /\ AllMarkersIn(Document))

\* C2: if one of the three markers is absent from the document that was read,
\* the invocation ends in MarkerNotFound without having opened the file for
\* writing, and no step of the invocation changes the file; the file is
\* written only by the step that follows the finding of all three markers.
C2_MissingMarkerAborts ==
    [] C2_NoWriteWithoutMarkers /\ [][C2_OnlyPersistTouchesFile]_vars

\* a document with marker A but without marker B was read, the invocation
\* ended in MarkerNotFound and the file still holds that document
C2_Witness ==
    /\ pc = "done"
    /\ outcome = "MarkerNotFound"
    /\ intro_end_index # Unbound
    /\ old_compile_start_index = Unbound
    /\ OccursIn(Document, skip_list_marker)
    /\ exists
    /\ file = Document

----------------------------------------------------------------------------
(* C3 *)

\* all three markers occur, but not with pos(A) <= pos(B) <= pos(C)
OutOfOrder(s) ==
    \E pA \in {pos(s, features_overview_marker)},
       pB \in {pos(s, old_compile_marker)},
       pC \in {pos(s, skip_list_marker)} :
        /\ pA # ValueError
        /\ pB # ValueError
        /\ pC # ValueError
        /\ ~(pA <= pB /\ pB <= pC)

\* C3 as stated: markers found out of order make the invocation abort
\* without a write.
C3_OutOfOrderAborts ==
    (pc = "done" /\ HasRead /\ OutOfOrder(Document)) =>
        /\ writes = 0
        /\ outcome \notin {"Success", "WriteError"}

\* C3, amended: markers found out of order do not make the invocation abort:
\* it goes on to its single write attempt as for ordered markers, and a
\* successful write replaces the file by the text assembled from the found
\* offsets, which differs from the document read.
C3_OutOfOrderStillWrites ==
    (pc = "done" /\ HasRead /\ OutOfOrder(Document)) =>
        /\ writes = 1
        /\ exception # "ValueError"
        /\ outcome \in {"Success", "WriteError"}
        /\ outcome = "Success" =>
              /\ exists
              /\ file = final_readme_content
              /\ file # Document

\* marker B first occurs before marker A, and the file was rewritten
C3_Witness ==
    /\ pc = "done"
    /\ outcome = "Success"
    /\ 0 <= old_compile_start_index
    /\ old_compile_start_index < intro_end_index
    /\ file = final_readme_content
    /\ file # Document

----------------------------------------------------------------------------
(* C4 *)

NothingDone ==
    /\ pc = "done"
    /\ current_readme_content = ""
    /\ intro_end_index = Unbound
    /\ old_compile_start_index = Unbound
    /\ skip_list_start_index = Unbound
    /\ final_readme_content = ""
    /\ writes = 0

\* C4 as stated: whatever made the read fail, the invocation ends in the
\* reported NotFound outcome.
C4_UnreadableIsNotFound ==
    (exception \in {"FileNotFoundError"} \cup ReadErrors) =>
        /\ outcome = "NotFound"
        /\ NothingDone

C4_ReadFailureEnds ==
    /\ exception = "FileNotFoundError" => (outcome = "NotFound" /\ NothingDone)
    /\ exception \in ReadErrors => (outcome = "Uncaught" /\ NothingDone)

\* C4, amended: if the file is absent the invocation ends in the reported
\* NotFound outcome; if it is present but unreadable the exception is not
\* caught and the invocation ends with it, unreported.  In both cases nothing
\* else is done: no marker lookup, no write, and the read step leaves the
\* file as it is.
C4_AbsentOrUnreadable ==
    [] C4_ReadFailureEnds /\ [][pc = "start" => ~FileChanges]_vars

\* a file that exists could not be read
C4_Witness ==
    /\ exception \in ReadErrors
    /\ outcome = "Uncaught"
    /\ exists
    /\ file # ""
    /\ pc = "done"

----------------------------------------------------------------------------
(* C5 *)

C5_NoRetry ==
    /\ writes <= 1
    /\ exception = "IOError" =>
          /\ pc = "done"
          /\ outcome = "WriteError"
          /\ writes = 1
    /\ (pc = "done" /\ writes = 1) => outcome \in {"Success", "WriteError"}
    /\ outcome = "Success" => exception = "none"

C5_FailedWriteLeaves ==
    (pc = "assembled" /\ pc' = "done" /\ outcome' # "Success") =>
        /\ outcome' = "WriteError"
        /\ \/ ~FileChanges
           \/ /\ exists'
              /\ Len(file') < Len(final_readme_content)
              /\ file' = SubSeq(final_readme_content, 1, Len(file'))

\* C5: an invocation opens the file for writing at most once; a failed write
\* ends it in WriteError, without a second attempt and without the success
\* report, and leaves the file either as it was or holding a proper prefix
\* (possibly empty) of the text being written.
C5_SingleWriteAttempt ==
    [] C5_NoRetry /\ [][C5_FailedWriteLeaves]_vars

\* a write failed part-way: the file holds a non-empty proper prefix
C5_Witness ==
    /\ pc = "done"
    /\ outcome = "WriteError"
    /\ writes = 1
    /\ exists
    /\ 0 < Len(file)
    /\ Len(file) < Len(final_readme_content)
    /\ file # Document

----------------------------------------------------------------------------
(* C6 *)

\* C6: for a document with pos(A) <= pos(B) <= pos(C), the three spans put
\* together with nothing between them are the document with exactly the
\* characters at offsets pos(B) .. pos(C)-1 removed: every other character is
\* there once, in its place.
C6_PartitionRoundTrip ==
    (pc = "assembled" \/ (pc = "done" /\ writes > 0)) =>
      \A pA \in {pos(Document, features_overview_marker)},
         pB \in {pos(Document, old_compile_marker)},
         pC \in {pos(Document, skip_list_marker)},
         kept \in {intro_content \o features_content \o rest_of_readme} :
        (0 <= pA /\ pA <= pB /\ pB <= pC) =>
          /\ Len(kept) = Len(Document) - (pC - pB)
          /\ \A k \in 1..pB : SubSeq(kept, k, k) = SubSeq(Document, k, k)
          /\ \A k \in (pB + 1)..Len(kept) :
               SubSeq(kept, k, k) =
                 SubSeq(Document, k + (pC - pB), k + (pC - pB))

\* the spans of an ordered document are cut, and the dropped span is not empty
C6_Witness ==
    /\ pc = "assembled"
    /\ 0 < intro_end_index
    /\ intro_end_index < old_compile_start_index
    /\ old_compile_start_index < skip_list_start_index
    /\ Len(intro_content) + Len(features_content) + Len(rest_of_readme)
         < Len(Document)
    /\ Len(rest_of_readme) > 0

----------------------------------------------------------------------------
(* C7 *)

\* an earlier invocation that read the same document as the current one
SameDocumentBefore(r) ==
    /\ log[r].outcome \in {"MarkerNotFound", "Success", "WriteError"}
    /\ log[r].content = Document

\* C7: each found offset is the smallest offset at which its marker occurs as
\* an exact substring of the whole document, whatever the offsets of the other
\* two markers, and the search fails only for a marker that occurs nowhere;
\* so an invocation that reads the same document as an earlier one finds the
\* same offsets and assembles the same text.
C7_FirstOccurrenceOfEach ==
    /\ (pc \in {"located", "assembled"} \/ (pc = "done" /\ writes > 0)) =>
          /\ FirstAt(Document, features_overview_marker, intro_end_index)
          /\ FirstAt(Document, old_compile_marker, old_compile_start_index)
          /\ FirstAt(Document, skip_list_marker, skip_list_start_index)
    /\ (pc = "done" /\ exception = "ValueError") => ~AllMarkersIn(Document)
    /\ (pc = "done" /\ HasRead) =>
          \A r \in 1..Len(log) :
             SameDocumentBefore(r) =>
                /\ log[r].a = intro_end_index
                /\ log[r].b = old_compile_start_index
                /\ log[r].c = skip_list_start_index
                /\ log[r].final = final_readme_content

\* the document whose write failed at open is read again: marker C first
\* occurs ahead of marker A, and both invocations found it there
C7_Witness ==
    /\ pc = "done"
    /\ outcome = "Success"
    /\ Len(log) >= 1
    /\ log[1].outcome = "WriteError"
    /\ log[1].content = Document
    /\ 0 <= skip_list_start_index
    /\ skip_list_start_index < intro_end_index
    /\ log[1].c = skip_list_start_index

----------------------------------------------------------------------------
(* C8 *)

\* C8: with all three markers present the invocation always goes on to the
\* write, whatever the order of their first occurrences; the text written is
\* the fixed concatenation cut at the found offsets, so that with
\* pos(B) < pos(A) the features span is empty, and with pos(C) < pos(B) the
\* characters Document[max(pos(A),pos(C)):pos(B)] are both in the features
\* span and in the tail.
C8_NoOrderCheck ==
    /\ (pc = "done" /\ HasRead /\ outcome = "MarkerNotFound") =>
          ~AllMarkersIn(Document)
    /\ (pc = "done" /\ outcome = "Success") =>
          \A pA \in {pos(Document, features_overview_marker)},
             pB \in {pos(Document, old_compile_marker)},
             pC \in {pos(Document, skip_list_marker)} :
            /\ pA >= 0 /\ pB >= 0 /\ pC >= 0
            /\ writes = 1
            /\ file = intro_content \o new_dir_structure_section \o "\n"
                        \o features_content \o new_compile_section \o "\n"
                        \o rest_of_readme
            /\ intro_content = SubSeq(Document, 1, pA)
            /\ rest_of_readme = SubSeq(Document, pC + 1, Len(Document))
            /\ pB < pA => features_content = ""
            /\ pA <= pB => features_content = SubSeq(Document, pA + 1, pB)
            /\ pC < pB =>
                 \A lo \in {IF pA > pC THEN pA ELSE pC} :
                    lo < pB =>
                      /\ Len(features_content) >= pB - pA
                      /\ Len(rest_of_readme) >= pB - pC
                      /\ SubSeq(features_content, lo - pA + 1, pB - pA)
                           = SubSeq(Document, lo + 1, pB)
                      /\ SubSeq(rest_of_readme, lo - pC + 1, pB - pC)
                           = SubSeq(Document, lo + 1, pB)

\* marker C first occurs between marker A and marker B: the characters from
\* C up to B were written twice
C8_Witness ==
    /\ pc = "done"
    /\ outcome = "Success"
    /\ 0 <= intro_end_index
    /\ intro_end_index < skip_list_start_index
    /\ skip_list_start_index < old_compile_start_index
    /\ Len(file) > Len(Document) + Len(new_dir_structure_section)
                     + Len(new_compile_section) + 2

----------------------------------------------------------------------------
(* C9 *)

\* C9: nothing guards the file between the read and the write.  When another
\* process changes the file after the invocation has read it, the invocation
\* still goes on to its write, reports no conflict, and a successful write
\* leaves the text assembled from the document that was read: the other
\* process's content is gone.
C9_StaleReadWins ==
    /\ (pc = "done" /\ stale /\ HasRead /\ exception # "ValueError") =>
          /\ writes = 1
          /\ outcome \in {"Success", "WriteError"}
    /\ (pc = "done" /\ stale /\ outcome = "Success") =>
          /\ exception = "none"
          /\ exists
          /\ file = final_readme_content
          /\ final_readme_content =
               intro_content \o new_dir_structure_section \o "\n"
                 \o features_content \o new_compile_section \o "\n"
                 \o rest_of_readme
          /\ intro_content = SubSeq(Document, 1, intro_end_index)
          /\ rest_of_readme =
               SubSeq(Document, skip_list_start_index + 1, Len(Document))

\* another process replaced the file between the read and the write, and
\* the write succeeded
C9_Witness ==
    /\ pc = "done"
    /\ stale
    /\ outcome = "Success"
    /\ file = final_readme_content
    /\ Len(intro_content) > 0

----------------------------------------------------------------------------
(* C10 *)

\* marker m occurs in s exactly once
OccursOnceIn(s, m) ==
    Cardinality({i \in 0..(Len(s) - Len(m)) :
                   SubSeq(s, i + 1, i + Len(m)) = m}) = 1

\* earlier invocation r succeeded on a document with ordered markers and a
\* single old compile heading
SettledBy(r) ==
    /\ log[r].outcome = "Success"
    /\ log[r].a <= log[r].b
    /\ log[r].b <= log[r].c
    /\ OccursOnceIn(log[r].content, old_compile_marker)

\* C10: after a successful invocation on a document with
\* pos(A) <= pos(B) <= pos(C) in which the old compile heading occurs exactly
\* once, the text written no longer contains that heading; an invocation that
\* then reads this text ends in MarkerNotFound without writing and leaves the
\* file as the successful invocation wrote it, so the blocks are not
\* inserted again.
C10_RerunStops ==
    /\ (pc = "done" /\ outcome = "Success"
          /\ intro_end_index <= old_compile_start_index
          /\ old_compile_start_index <= skip_list_start_index
          /\ OccursOnceIn(Document, old_compile_marker)) =>
            /\ file = final_readme_content
            /\ ~OccursIn(file, old_compile_marker)
    /\ (pc = "done" /\ HasRead) =>
          \A r \in 1..Len(log) :
             (SettledBy(r) /\ Document = log[r].final) =>
                /\ outcome = "MarkerNotFound"
                /\ writes = 0
                /\ final_readme_content = ""
                /\ ~stale => (exists /\ file = log[r].final)

\* the second invocation read what the first one wrote and stopped
C10_Witness ==
    /\ pc = "done"
    /\ Len(log) >= 1
    /\ log[1].outcome = "Success"
    /\ log[1].a <= log[1].b
    /\ log[1].b <= log[1].c
    /\ Document = log[1].final
    /\ outcome = "MarkerNotFound"
    /\ exists
    /\ file = log[1].final

====
